---- MODULE Spec2Model ----
(***************************************************************************)
(* The terminology-correction subsystem of HorizonSummaries:               *)
(*   - the Correction Store        (src/src/database/term_db.py)           *)
(*   - the Fuzzy Term Analyzer     (src/src/llm/term_analyzer.py)          *)
(*   - the staged Orchestrator     (src/src/preprocessing/                 *)
(*                                  term_correction.py)                    *)
(*                                                                         *)
(* Python values are modelled as follows.  A str that is searched for or   *)
(* substituted in text (incorrect_term, correct_term) is a sequence of     *)
(* one-character strings; a str that is only stored and compared           *)
(* (reasoning, correction_type, source) is a TLA+ string.  A confidence is *)
(* a record [t, v]: t = "float" with v in hundredths (0.75 is 75), or      *)
(* t = "str" for a JSON string such as "high" that the model returned      *)
(* where a number was asked for.  A dict is the sequence of its items in   *)
(* insertion order.                                                        *)
(***************************************************************************)
EXTENDS Integers, Sequences, FiniteSets, TLC

VARIABLES
    table,          \* term_corrections: the committed rows
    lock,           \* holder of SQLite's write lock, or "free"
    pending,        \* per process: the uncommitted effect of its transaction
    now,            \* CURRENT_TIMESTAMP, in whole seconds
    calls,          \* transactions started by the concurrent writers so far
    last_commit,    \* per incorrect_term: who committed it, the last parameters,
                    \* and the updated_at that commit found for the same values
    pc,             \* position of the correct_jupiter_terms run
    transcript,
    known_terms,
    known_names,
    high_confidence_corrections,
    partially_corrected,
    llm_correction_data,
    high_confidence_new,
    all_corrections,
    medium_corrections,
    final_transcript,
    service,        \* what the generative service answers in this run
    service_calls,  \* requests made to the generative service in this run
    persisted,      \* how Stage C's add_multiple_term_corrections ended
    store_changed,  \* a concurrent writer committed since this run began
    handed,         \* per stage: the dict handed to _apply_corrections
    read_ok,        \* per stage: the store query of the stage succeeded
    reply,          \* how the last observed call of a store function ended
    generator       \* a VertexAIGenerator and its generate_response_with_retry call

store_vars == <<table, lock, pending, now, calls, last_commit>>
stage_vars == <<pc, transcript, known_terms, known_names,
                high_confidence_corrections, partially_corrected,
                llm_correction_data, high_confidence_new, all_corrections,
                medium_corrections, final_transcript, service, service_calls,
                persisted, store_changed, handed, read_ok>>
run_vars == <<stage_vars, reply, generator>>
vars == <<store_vars, run_vars>>

-----------------------------------------------------------------------------
(* Bounds of the model.                                                    *)

MaxCalls == 2       \* transactions of the concurrent writers in one behaviour
MaxClock == 1       \* seconds the clock may advance

-----------------------------------------------------------------------------
(* Strings and confidences.                                                *)

Empty == <<>>
jupe == <<"j", "u", "p", "e">>
the_dow == <<"t", "h", "e", " ", "d", "o", "w">>
JUP == <<"J", "U", "P">>
Jupiter == <<"J", "u", "p", "i", "t", "e", "r">>
the_DAO == <<"t", "h", "e", " ", "D", "A", "O">>

Keys == {jupe, the_dow}

Num(v) == [t |-> "float", v |-> v]
NotANumber == [t |-> "str", v |-> 0]

HIGH_CONFIDENCE_THRESHOLD == 75
MEDIUM_CONFIDENCE_THRESHOLD == 60
DefaultManualConfidence == 100
DefaultAnalyzerConfidence == 70

None == "None"
Unbindable == "[list]"      \* a JSON array where a string was asked for

-----------------------------------------------------------------------------
(* The Correction Store.                                                   *)

Procs == {"run", "w1", "w2"}
NoTx == [ins |-> {}, upd |-> {}, params |-> <<>>]
NoCommit == [by |-> {}, params |-> <<>>, before |-> <<>>]

KeysOf(t) == {r.incorrect_term : r \in t}
RowsOf(t, k) == {r \in t : r.incorrect_term = k}

Max(S) == CHOOSE x \in S : \A y \in S : y <= x
NewId(t) == IF t = {} THEN 1 ELSE Max({r.id : r \in t}) + 1

\* sqlite3 binds str, float and None; any other Python object raises
\* sqlite3.ProgrammingError, a sqlite3.Error.
Bindable(p) == p.reasoning # Unbindable

\* Mutant of UpdatedRow: the conflicting row only gets a new timestamp, as the
\* docstring of add_term_correction words it.
UpdatedRow_TimestampOnly(r, p, ts) == [r EXCEPT !.updated_at = ts]

\* What ON CONFLICT(incorrect_term) DO UPDATE SET does to the conflicting row.
UpdatedRow(r, p, ts) ==
    [r EXCEPT !.correct_term = p.correct_term,
              !.confidence = p.confidence,
              !.reasoning = p.reasoning,
              !.correction_type = p.correction_type,
              !.source = p.source,
              !.updated_at = ts]

InsertedRow(id, p, ts) ==
    [id |-> id,
     incorrect_term |-> p.incorrect_term,
     correct_term |-> p.correct_term,
     confidence |-> p.confidence,
     reasoning |-> p.reasoning,
     correction_type |-> p.correction_type,
     source |-> p.source,
     created_at |-> ts,
     updated_at |-> ts]

Ids(t) == {r.id : r \in t}

\* The rows as the transaction tx sees them on top of the committed rows t.
View(t, tx) == {r \in t : r.id \notin Ids(tx.upd)} \cup tx.upd \cup tx.ins

\* Mutant of Upsert: a conflicting row of higher confidence is left as it is.
Upsert_KeepHigher(t, tx, p, ts) ==
    LET seen == View(t, tx)
        after == IF \E r \in seen : r.incorrect_term = p.incorrect_term
                 THEN {IF r.incorrect_term = p.incorrect_term
                          /\ r.confidence.v <= p.confidence.v
                       THEN UpdatedRow(r, p, ts) ELSE r : r \in seen}
                 ELSE seen \cup {InsertedRow(NewId(seen), p, ts)}
    IN [ins |-> {r \in after : r.id \notin Ids(t)},
        upd |-> {r \in after : r.id \in Ids(t) /\ r \notin t},
        params |-> Append(tx.params, p)]

\* One INSERT ... ON CONFLICT(incorrect_term) DO UPDATE inside transaction tx:
\* the row with this incorrect_term is rewritten, or a new row is added.
Upsert(t, tx, p, ts) ==
    LET seen == View(t, tx)
        after == IF \E r \in seen : r.incorrect_term = p.incorrect_term
                 THEN {IF r.incorrect_term = p.incorrect_term
                       THEN UpdatedRow(r, p, ts) ELSE r : r \in seen}
                 ELSE seen \cup {InsertedRow(NewId(seen), p, ts)}
    IN [ins |-> {r \in after : r.id \notin Ids(t)},
        upd |-> {r \in after : r.id \in Ids(t) /\ r \notin t},
        params |-> Append(tx.params, p)]

\* cursor.executemany: the statement once per parameter tuple, in order.
RECURSIVE ExecuteMany(_, _, _, _)
ExecuteMany(t, tx, ps, ts) ==
    IF ps = <<>> THEN tx
    ELSE ExecuteMany(t, Upsert(t, tx, Head(ps), ts), Tail(ps), ts)

\* Leaving "with conn:" without an exception commits the transaction.
Commit(t, tx) == View(t, tx)

\* Mutant of Rollback: what was executed before the exception stays.
Rollback_KeepExecuted(t, tx) == Commit(t, tx)

\* Leaving "with conn:" with an exception rolls the transaction back: nothing
\* of what it executed reaches the committed rows.
Rollback(t, tx) == t

\* Mutant of CanWrite: writers are not serialised.
CanWrite_Unlocked(p) == TRUE

\* The first write statement of a transaction takes SQLite's write lock; a
\* second writer waits for it (timeout=10) and fails when it is not released.
CanWrite(p) == lock = "free"

-----------------------------------------------------------------------------
(* Python dicts: the items in insertion order.                             *)

Range(s) == {s[i] : i \in 1..Len(s)}
DictKeys(d) == {d[i][1] : i \in 1..Len(d)}
DictGet(d, k) == d[CHOOSE i \in 1..Len(d) : d[i][1] = k][2]
\* d[k] = v: a new key is appended, an old key keeps its place.
DictSet(d, k, v) ==
    IF k \in DictKeys(d)
    THEN [i \in 1..Len(d) |-> IF d[i][1] = k THEN <<k, v>> ELSE d[i]]
    ELSE Append(d, <<k, v>>)

\* A JSON value of the model's answer under one key: a dict with the fields
\* named in has (the other fields hold fillers), or a plain string.
Data(has, term, confidence, reasoning, correction_type) ==
    [kind |-> "dict", has |-> has, term |-> term, confidence |-> confidence,
     reasoning |-> reasoning, correction_type |-> correction_type]
Plain(term) ==
    [kind |-> "str", has |-> {}, term |-> term, confidence |-> Num(0),
     reasoning |-> None, correction_type |-> "term"]

AllFields == {"term", "confidence", "reasoning", "correction_type"}

-----------------------------------------------------------------------------
(* add_term_correction and add_multiple_term_corrections.                  *)

Params(incorrect, correct, confidence, reasoning, correction_type, source) ==
    [incorrect_term |-> incorrect, correct_term |-> correct,
     confidence |-> confidence, reasoning |-> reasoning,
     correction_type |-> correction_type, source |-> source]

\* Mutant of data_to_insert: findings below a minimum confidence are not
\* stored.
RECURSIVE data_to_insert_MinConfidence(_, _)
data_to_insert_MinConfidence(corrections, source) ==
    IF corrections = <<>> THEN <<>>
    ELSE LET incorrect == Head(corrections)[1]
             correction_data == Head(corrections)[2]
             rest == data_to_insert_MinConfidence(Tail(corrections), source)
             correct == IF correction_data.kind = "str" THEN correction_data.term
                        ELSE IF "term" \in correction_data.has
                             THEN correction_data.term ELSE Empty
             confidence == IF correction_data.kind = "str"
                           THEN Num(DefaultManualConfidence)
                           ELSE IF "confidence" \in correction_data.has
                                THEN correction_data.confidence
                                ELSE Num(DefaultManualConfidence)
             reasoning == IF correction_data.kind = "dict"
                             /\ "reasoning" \in correction_data.has
                          THEN correction_data.reasoning ELSE None
             correction_type == IF correction_data.kind = "dict"
                                   /\ "correction_type" \in correction_data.has
                                THEN correction_data.correction_type ELSE "term"
         IN IF incorrect = Empty THEN rest
            ELSE IF correction_data.kind \notin {"str", "dict"} THEN rest
            ELSE IF correct = Empty THEN rest
            ELSE IF confidence.t = "float" /\ confidence.v < MEDIUM_CONFIDENCE_THRESHOLD
                 THEN rest
            ELSE <<Params(incorrect, correct, confidence, reasoning,
                          correction_type, source)>> \o rest

\* add_multiple_term_corrections, the loop that builds data_to_insert.
RECURSIVE data_to_insert(_, _)
data_to_insert(corrections, source) ==
    IF corrections = <<>> THEN <<>>
    ELSE LET incorrect == Head(corrections)[1]
             correction_data == Head(corrections)[2]
             rest == data_to_insert(Tail(corrections), source)
             correct == IF correction_data.kind = "str" THEN correction_data.term
                        ELSE IF "term" \in correction_data.has
                             THEN correction_data.term ELSE Empty
             confidence == IF correction_data.kind = "str"
                           THEN Num(DefaultManualConfidence)
                           ELSE IF "confidence" \in correction_data.has
                                THEN correction_data.confidence
                                ELSE Num(DefaultManualConfidence)
             reasoning == IF correction_data.kind = "dict"
                             /\ "reasoning" \in correction_data.has
                          THEN correction_data.reasoning ELSE None
             correction_type == IF correction_data.kind = "dict"
                                   /\ "correction_type" \in correction_data.has
                                THEN correction_data.correction_type ELSE "term"
         IN IF incorrect = Empty THEN rest
            ELSE IF correction_data.kind \notin {"str", "dict"} THEN rest
            ELSE IF correct = Empty THEN rest
            ELSE <<Params(incorrect, correct, confidence, reasoning,
                          correction_type, source)>> \o rest

\* The parameter tuples a store call hands to SQLite: add_term_correction one
\* (none when it returns at its guard), add_multiple_term_corrections a batch.
Statement(call) ==
    IF call.op = "add_term_correction"
    THEN IF call.args.incorrect_term = Empty \/ call.args.correct_term = Empty
         THEN <<>> ELSE <<call.args>>
    ELSE data_to_insert(call.corrections, call.source)

\* A call starts its transaction: every parameter tuple is bound and executed.
\* A tuple SQLite cannot bind raises, and "with conn:" rolls the batch back.
Execute(p, call) ==
    /\ pending[p] = NoTx
    /\ Statement(call) # <<>>
    /\ \A i \in 1..Len(Statement(call)) : Bindable(Statement(call)[i])
    /\ CanWrite(p)
    /\ lock' = p
    /\ pending' = [pending EXCEPT ![p] = ExecuteMany(table, NoTx, Statement(call), now)]
    /\ UNCHANGED <<table, now, last_commit>>

\* executemany binds and executes tuple after tuple: the tuples before the
\* first one that SQLite cannot bind.
RECURSIVE BoundPrefix(_)
BoundPrefix(ps) ==
    IF ps = <<>> \/ ~Bindable(Head(ps)) THEN <<>>
    ELSE <<Head(ps)>> \o BoundPrefix(Tail(ps))

\* A tuple of the call cannot be bound: executemany raises
\* sqlite3.ProgrammingError after the tuples before it were executed,
\* "with conn:" rolls back, and the call logs the error and returns.
Rejected(p, call) ==
    /\ pending[p] = NoTx
    /\ \E i \in 1..Len(Statement(call)) : ~Bindable(Statement(call)[i])
    /\ BoundPrefix(Statement(call)) # <<>> => CanWrite(p)
    /\ table' = Rollback(table, ExecuteMany(table, NoTx,
                                            BoundPrefix(Statement(call)), now))
    /\ UNCHANGED <<lock, pending, now, last_commit>>

\* The call returns without a write: its guard (empty term, empty batch), no
\* connection (_get_connection returned None), or a sqlite3.Error that the
\* call logs (a tuple that cannot be bound, the lock not obtained in time).
NoWrite(p, call) ==
    /\ pending[p] = NoTx
    /\ UNCHANGED <<table, lock, pending, now, last_commit>>

\* The updated_at of the row that the upsert of p rewrites, when that row
\* already holds p's incorrect_term, correct_term and confidence.
Replaced_at(t, p) ==
    LET same == {r \in t : /\ r.incorrect_term = p.incorrect_term
                           /\ r.correct_term = p.correct_term
                           /\ r.confidence = p.confidence}
    IN IF same = {} THEN <<>> ELSE <<(CHOOSE r \in same : TRUE).updated_at>>

CommitTx(p) ==
    /\ pending[p] # NoTx
    /\ table' = Commit(table, pending[p])
    /\ last_commit' = [k \in Keys |->
          IF \E i \in 1..Len(pending[p].params) : pending[p].params[i].incorrect_term = k
          THEN LET i == CHOOSE j \in 1..Len(pending[p].params) :
                           /\ pending[p].params[j].incorrect_term = k
                           /\ \A m \in (j+1)..Len(pending[p].params) :
                                  pending[p].params[m].incorrect_term # k
               IN [by |-> last_commit[k].by \cup {p},
                   params |-> <<pending[p].params[i]>>,
                   before |-> Replaced_at(table, pending[p].params[i])]
          ELSE last_commit[k]]
    /\ lock' = (IF lock = p THEN "free" ELSE lock)
    /\ pending' = [pending EXCEPT ![p] = NoTx]
    /\ UNCHANGED now

\* The commit fails (disk I/O): "with conn:" rolls back, the error is logged.
RollbackTx(p) ==
    /\ pending[p] # NoTx
    /\ table' = Rollback(table, pending[p])
    /\ lock' = (IF lock = p THEN "free" ELSE lock)
    /\ pending' = [pending EXCEPT ![p] = NoTx]
    /\ UNCHANGED <<now, last_commit>>

-----------------------------------------------------------------------------
(* get_all_term_corrections and get_term_corrections_with_metadata.        *)

\* SQLite's "confidence >= ?" on a FLOAT column: a value stored as TEXT (a
\* string that is no number keeps its type) is greater than every number.
SqlGE(confidence, bound) ==
    IF confidence.t = "str" THEN TRUE ELSE confidence.v >= bound

\* WHERE confidence >= ? [AND correction_type IN (...)]: an empty or missing
\* correction_types list adds no condition.
Selected(t, min_confidence, correction_types) ==
    {r \in t : /\ SqlGE(r.confidence, min_confidence)
               /\ correction_types # {} => r.correction_type \in correction_types}

\* ORDER BY length(incorrect_term) DESC: every order of the rows in which the
\* lengths do not increase (SQL leaves the order of equal lengths open).
Ordered(rows) ==
    {s \in [1..Cardinality(rows) -> rows] :
        /\ \A i, j \in DOMAIN s : i # j => s[i] # s[j]
        /\ \A i, j \in DOMAIN s :
              i < j => Len(s[i].incorrect_term) >= Len(s[j].incorrect_term)}

RECURSIVE CorrectionsDict(_)
CorrectionsDict(rows) ==
    IF rows = <<>> THEN <<>>
    ELSE LET r == rows[Len(rows)]
         IN DictSet(CorrectionsDict(SubSeq(rows, 1, Len(rows) - 1)),
                    r.incorrect_term, r.correct_term)

RECURSIVE MetadataDict(_)
MetadataDict(rows) ==
    IF rows = <<>> THEN <<>>
    ELSE LET r == rows[Len(rows)]
         IN DictSet(MetadataDict(SubSeq(rows, 1, Len(rows) - 1)),
                    r.incorrect_term,
                    [term |-> r.correct_term, confidence |-> r.confidence,
                     reasoning |-> r.reasoning,
                     correction_type |-> r.correction_type, source |-> r.source,
                     created_at |-> r.created_at, updated_at |-> r.updated_at])

\* The dicts the call may return: one per row order when the SELECT succeeds
\* (ok), the empty dict when the connection or the SELECT fails.
get_all_term_corrections(ok, min_confidence, correction_types) ==
    IF ok
    THEN {CorrectionsDict(rows) :
            rows \in Ordered(Selected(table, min_confidence, correction_types))}
    ELSE {<<>>}

get_term_corrections_with_metadata(ok, min_confidence, correction_types) ==
    IF ok
    THEN {MetadataDict(rows) :
            rows \in Ordered(Selected(table, min_confidence, correction_types))}
    ELSE {<<>>}

-----------------------------------------------------------------------------
(* How a call of a store function can fail to reach the table.             *)

\* "connect": sqlite3.connect raises a sqlite3.Error, _get_connection logs
\* it and returns None.  "statement": execute, executemany or fetchall raises
\* a sqlite3.Error (the lock not obtained within the timeout, disk I/O),
\* which the function logs.  "mkdir": DATABASE_DIR.mkdir in _get_connection
\* raises an OSError (the directory is gone and cannot be made again); it is
\* no sqlite3.Error, so neither _get_connection nor its caller catches it.
StoreFailures == {"none", "connect", "statement", "mkdir"}

\* The call reaches the table.
Reaches(failure) == failure = "none"

\* The call leaves the store function as an exception.
Propagates(failure) == failure = "mkdir"

\* What the caller of a store function observes: the function and its
\* arguments, how it ended, what it returned, and the committed rows at the
\* call.
Reply(op, min_confidence, types_given, correction_types, failure, value, rows) ==
    [op |-> op, min_confidence |-> min_confidence, types_given |-> types_given,
     correction_types |-> correction_types, failure |-> failure,
     outcome |-> IF Propagates(failure) THEN "raised" ELSE "returned",
     value |-> IF Propagates(failure) THEN <<>> ELSE value,
     seen |-> rows]

NoReply == Reply("none", 0, FALSE, {}, "none", <<>>, {})

-----------------------------------------------------------------------------
(* VertexAIGenerator (src/src/summarization/vertex_ai.py).                 *)

max_retries == 3
initial_retry_delay == 1
max_retry_delay == 32
JitterPercent == 10         \* jitter_factor = 0.1

\* A VertexAIGenerator after __init__, with no call under way.  Delays are in
\* hundredths of a second.
NoRequest ==
    [pc |-> "idle", retry_count |-> 0, lesser_model |-> FALSE,
     model_id |-> "DEFAULT_MODEL", tried |-> <<>>, delay |-> 0]

\* set_model_id(lesser_model)
set_model_id(lesser_model) ==
    IF lesser_model THEN "LESSER_MODEL" ELSE "DEFAULT_MODEL"

Pow2(n) == IF n = 0 THEN 1 ELSE IF n = 1 THEN 2 ELSE IF n = 2 THEN 4
           ELSE IF n = 3 THEN 8 ELSE IF n = 4 THEN 16 ELSE 32

Min(a, b) == IF a <= b THEN a ELSE b

\* _calculate_retry_delay: u stands for random.uniform(-1, 1), here -1, 0, 1.
calculate_retry_delay(retry_count, u) ==
    LET delay == 100 * Min(max_retry_delay, initial_retry_delay * Pow2(retry_count))
    IN delay + ((delay * JitterPercent) \div 100) * u

\* An exception of generate_content is modelled by its kind and by the
\* phrases that str(e) contains.
quota_indicators ==
    {"429 Quota exceeded", "exceeds quota", "429 RESOURCE_EXHAUSTED",
     "prediction request quota exceeded", "Please try again later with backoff"}

Error(kind, phrases) == [kind |-> kind, phrases |-> phrases]
NoError == Error("none", {})

\* The failures of the service: quota failures as Vertex AI words them, a
\* quota failure worded otherwise, network failures, and a rejected request.
ServiceErrors ==
    {Error("quota", {"429 RESOURCE_EXHAUSTED"}),
     Error("quota", {"429 Quota exceeded", "Please try again later with backoff"}),
     Error("quota", {"429 Too Many Requests"}),
     Error("network", {"503 Service Unavailable"}),
     Error("network", {"Connection reset by peer"}),
     Error("request", {"400 Invalid argument"})}

\* _handle_quota_error(str(e))
handle_quota_error(error) == error.phrases \cap quota_indicators # {}

\* Mutant of Exhausted: the retries are never found used up.
Exhausted_Never(retry_count) == FALSE

\* Line 129.
Exhausted(retry_count) == retry_count >= max_retries

-----------------------------------------------------------------------------
(* _apply_corrections: re.sub(r'\b' + re.escape(incorrect) + r'\b', correct,*)
(* corrected, flags=re.IGNORECASE) for every item of the dict, in order.   *)

UpperCase == <<"A", "B", "C", "D", "E", "F", "G", "H", "I", "J", "K", "L", "M",
               "N", "O", "P", "Q", "R", "S", "T", "U", "V", "W", "X", "Y", "Z">>
LowerCase == <<"a", "b", "c", "d", "e", "f", "g", "h", "i", "j", "k", "l", "m",
               "n", "o", "p", "q", "r", "s", "t", "u", "v", "w", "x", "y", "z">>
Digits == {"0", "1", "2", "3", "4", "5", "6", "7", "8", "9"}

Lower(c) ==
    IF \E i \in DOMAIN UpperCase : UpperCase[i] = c
    THEN LowerCase[CHOOSE i \in DOMAIN UpperCase : UpperCase[i] = c]
    ELSE c

\* \w
IsWord(c) == c \in Range(UpperCase) \cup Range(LowerCase) \cup Digits \cup {"_"}

\* \b at position i (between text[i-1] and text[i], 1-based)
Boundary(text, i) ==
    LET before == i > 1 /\ IsWord(text[i - 1])
        after == i <= Len(text) /\ IsWord(text[i])
    IN before # after

\* Mutant of MatchesAt: the pattern without its \b.
MatchesAt_NoBoundary(text, i, incorrect) ==
    /\ i + Len(incorrect) - 1 <= Len(text)
    /\ \A j \in 1..Len(incorrect) : Lower(text[i + j - 1]) = Lower(incorrect[j])

MatchesAt(text, i, incorrect) ==
    /\ i + Len(incorrect) - 1 <= Len(text)
    /\ \A j \in 1..Len(incorrect) : Lower(text[i + j - 1]) = Lower(incorrect[j])
    /\ Boundary(text, i)
    /\ Boundary(text, i + Len(incorrect))

\* The replacement argument of re.sub is a template (re's parse_template):
\* a backslash starts an escape.  "\\" is a backslash; \a \b \f \n \r \t \v
\* are control characters; \0 and three octal digits are the character of
\* that code; \g<0> is the matched text; any other group reference (the
\* pattern has no group) and any other ASCII letter raise re.error, as does
\* a backslash at the end; a backslash before any other character stays.
Backslash == "\\"
OctDigits == <<"0", "1", "2", "3", "4", "5", "6", "7">>
IsOct(c) == c \in Range(OctDigits)
OctValue(c) == (CHOOSE i \in DOMAIN OctDigits : OctDigits[i] = c) - 1
Chr(n) == "chr(" \o ToString(n) \o ")"
ControlEscapes == {"a", "b", "f", "n", "r", "t", "v"}
Control(c) == IF c = "n" THEN "\n" ELSE IF c = "t" THEN "\t"
              ELSE IF c = "r" THEN "\r" ELSE IF c = "f" THEN "\f"
              ELSE IF c = "a" THEN Chr(7) ELSE IF c = "b" THEN Chr(8) ELSE Chr(11)

Raised(text) == [raised |-> TRUE, text |-> text]
Returned(text) == [raised |-> FALSE, text |-> text]

RECURSIVE Expand(_, _, _)
Expand(correct, i, matched) ==
    LET rest(chars, j) ==
            LET tail == Expand(correct, j, matched)
            IN IF tail.raised THEN tail ELSE Returned(chars \o tail.text)
        has(j) == j <= Len(correct)
    IN IF ~has(i) THEN Returned(<<>>)
       ELSE IF correct[i] # Backslash THEN rest(<<correct[i]>>, i + 1)
       ELSE IF ~has(i + 1) THEN Raised(<<>>)
       ELSE LET c == correct[i + 1]
            IN IF c = Backslash THEN rest(<<Backslash>>, i + 2)
               ELSE IF c \in ControlEscapes THEN rest(<<Control(c)>>, i + 2)
               ELSE IF c = "g"
                    THEN IF /\ has(i + 4) /\ correct[i + 2] = "<"
                            /\ correct[i + 3] = "0" /\ correct[i + 4] = ">"
                         THEN rest(matched, i + 5)
                         ELSE Raised(<<>>)
               ELSE IF c = "0"
                    THEN IF has(i + 2) /\ IsOct(correct[i + 2])
                         THEN IF has(i + 3) /\ IsOct(correct[i + 3])
                              THEN rest(<<Chr(8 * OctValue(correct[i + 2])
                                              + OctValue(correct[i + 3]))>>, i + 4)
                              ELSE rest(<<Chr(OctValue(correct[i + 2]))>>, i + 3)
                         ELSE rest(<<Chr(0)>>, i + 2)
               ELSE IF c \in Digits
                    THEN IF /\ IsOct(c) /\ has(i + 3)
                            /\ IsOct(correct[i + 2]) /\ IsOct(correct[i + 3])
                            /\ OctValue(c) <= 3
                         THEN rest(<<Chr(64 * OctValue(c) + 8 * OctValue(correct[i + 2])
                                         + OctValue(correct[i + 3]))>>, i + 4)
                         ELSE Raised(<<>>)
               ELSE IF c \in Range(UpperCase) \cup Range(LowerCase) THEN Raised(<<>>)
               ELSE rest(<<Backslash, c>>, i + 2)

\* re.sub: the leftmost matches, none overlapping, each replaced by the
\* expansion of the template correct.
RECURSIVE Sub(_, _, _, _)
Sub(text, i, incorrect, correct) ==
    IF i > Len(text) THEN <<>>
    ELSE IF MatchesAt(text, i, incorrect)
         THEN Expand(correct, 1, SubSeq(text, i, i + Len(incorrect) - 1)).text
              \o Sub(text, i + Len(incorrect), incorrect, correct)
         ELSE <<text[i]>> \o Sub(text, i + 1, incorrect, correct)

\* The loop of lines 89-96.  A template re cannot compile raises re.error out
\* of _apply_corrections, whether or not the pattern matches.
RECURSIVE apply_corrections(_, _)
apply_corrections(text, corrections) ==
    IF corrections = <<>> THEN Returned(text)
    ELSE LET incorrect == Head(corrections)[1]
             correct == Head(corrections)[2]
         IN IF incorrect = Empty \/ correct = Empty
            THEN apply_corrections(text, Tail(corrections))
            ELSE IF Expand(correct, 1, <<>>).raised THEN Raised(text)
            ELSE apply_corrections(Sub(text, 1, incorrect, correct),
                                   Tail(corrections))

-----------------------------------------------------------------------------
(* The Reference Catalog as the Analyzer flattens it.                      *)

terms_word == <<"t", "e", "r", "m", "s">>
people_word == <<"p", "e", "o", "p", "l", "e">>

\* A Python list of strings, as _load_known_terms and _load_known_names
\* return it, and a dict {"terms": [...]}, as load_term_context returns it.
List(items) == [kind |-> "list", items |-> items]
Catalog(entries) == [kind |-> "dict", items |-> entries]
Entry(term, acronyms) == [kind |-> "dict", term |-> term, acronyms |-> acronyms]
Str(term) == [kind |-> "str", term |-> term, acronyms |-> <<>>]

NonEmpty(strings) == SelectSeq(strings, LAMBDA x : x # Empty)

RECURSIVE Flatten(_)
Flatten(entries) ==
    IF entries = <<>> THEN <<>>
    ELSE LET e == Head(entries)
         IN (IF e.kind = "str" THEN <<e.term>>
             ELSE <<e.term>> \o NonEmpty(e.acronyms))
            \o Flatten(Tail(entries))

\* extract_terms_list / extract_people_list (word is "terms" / "people").
\* On a list, `word in data` asks whether the list holds that string and
\* data[word] then raises TypeError.
extract_list(data, word) ==
    IF data.kind = "list"
    THEN [raised |-> word \in Range(data.items), list |-> <<>>]
    ELSE [raised |-> FALSE, list |-> NonEmpty(Flatten(data.items))]

extract_terms_list(term_data) == extract_list(term_data, terms_word)
extract_people_list(name_data) == extract_list(name_data, people_word)

\* bool(x) of a list or of a dict that has a key
Truthy(data) == IF data.kind = "list" THEN data.items # <<>> ELSE TRUE

-----------------------------------------------------------------------------
(* analyze_transcript_for_term_errors.                                     *)

NoFindings == [is_none |-> TRUE, items |-> <<>>]
Findings(items) == [is_none |-> FALSE, items |-> items]

\* The answer of the generative service to one request, after
\* parse_json_from_llm: an exception, an empty content, text that is no JSON,
\* a JSON array, or a JSON object with its items.
Answer(kind, corrections) == [kind |-> kind, corrections |-> corrections]

\* Mutant of valid_corrections: an entry without a 'term' is kept.
RECURSIVE valid_corrections_KeepsAll(_, _)
valid_corrections_KeepsAll(corrections, known_people) ==
    IF corrections = <<>> THEN <<>>
    ELSE LET n == Len(corrections)
             incorrect_term == corrections[n][1]
             correction_data == corrections[n][2]
             before == valid_corrections_KeepsAll(SubSeq(corrections, 1, n - 1),
                                                  known_people)
             confidence == IF "confidence" \in correction_data.has
                           THEN correction_data.confidence
                           ELSE Num(DefaultAnalyzerConfidence)
             correction_type ==
                 IF "correction_type" \in correction_data.has
                 THEN correction_data.correction_type
                 ELSE IF known_people # <<>> /\ correction_data.term \in Range(known_people)
                      THEN "person" ELSE "term"
         IN IF correction_data.kind # "dict" THEN before
            ELSE DictSet(before, incorrect_term,
                         [correction_data EXCEPT
                             !.has = @ \cup {"confidence", "correction_type"},
                             !.confidence = confidence,
                             !.correction_type = correction_type])

\* Lines 166-190: the entries that are dicts with a 'term', with the defaults
\* for confidence and correction_type filled in.
RECURSIVE valid_corrections(_, _)
valid_corrections(corrections, known_people) ==
    IF corrections = <<>> THEN <<>>
    ELSE LET n == Len(corrections)
             incorrect_term == corrections[n][1]
             correction_data == corrections[n][2]
             before == valid_corrections(SubSeq(corrections, 1, n - 1), known_people)
             confidence == IF "confidence" \in correction_data.has
                           THEN correction_data.confidence
                           ELSE Num(DefaultAnalyzerConfidence)
             correction_type ==
                 IF "correction_type" \in correction_data.has
                 THEN correction_data.correction_type
                 ELSE IF known_people # <<>> /\ correction_data.term \in Range(known_people)
                      THEN "person" ELSE "term"
         IN IF correction_data.kind # "dict" THEN before
            ELSE IF "term" \notin correction_data.has THEN before
            ELSE DictSet(before, incorrect_term,
                         [correction_data EXCEPT
                             !.has = @ \cup {"confidence", "correction_type"},
                             !.confidence = confidence,
                             !.correction_type = correction_type])

\* The call's outcome: raised (a TypeError of the flattening, outside the
\* function's try), whether the service was asked, and the value returned.
analyze_transcript_for_term_errors(text, term_data, people_data, answer) ==
    LET known_terms_list == extract_terms_list(term_data)
        known_people == extract_people_list(people_data)
        out(raised, called, value) ==
            [raised |-> raised, called |-> called, value |-> value]
    IN IF text = Empty THEN out(FALSE, FALSE, NoFindings)
       ELSE IF known_terms_list.raised \/ known_people.raised
            THEN out(TRUE, FALSE, NoFindings)
       ELSE IF known_terms_list.list = <<>> /\ known_people.list = <<>>
            THEN out(FALSE, FALSE, NoFindings)
       ELSE IF answer.kind # "object" THEN out(FALSE, TRUE, NoFindings)
       ELSE out(FALSE, TRUE,
                Findings(valid_corrections(answer.corrections, known_people.list)))

-----------------------------------------------------------------------------
(* Inputs.                                                                 *)

comma == <<",", " ">>
Transcripts == {Empty, jupe \o comma \o the_dow}

\* The correction the model proposes for a term of the transcript.
Fix(k) == IF k = jupe THEN Jupiter ELSE the_DAO

\* What the service may put under one key of its JSON object: a full finding
\* of high or of low confidence; one with only a term; one whose confidence is
\* a string; one without a term; one with an empty term; one whose reasoning is
\* an array; a plain string; a full finding whose confidence is 1.5.
High(k) == Data(AllFields, Fix(k), Num(HIGH_CONFIDENCE_THRESHOLD), "r1", "acronym")
Low(k) == Data(AllFields, Fix(k), Num(30), "r1", "acronym")
OnlyTerm(k) == Data({"term"}, Fix(k), Num(0), None, "term")
TextConfidence(k) == Data(AllFields, Fix(k), NotANumber, "r1", "acronym")
NoTerm(k) == Data({"confidence"}, Empty, Num(HIGH_CONFIDENCE_THRESHOLD), None, "term")
EmptyTerm(k) == Data(AllFields, Empty, Num(HIGH_CONFIDENCE_THRESHOLD), "r1", "acronym")
ListReasoning(k) ==
    Data(AllFields, Fix(k), Num(HIGH_CONFIDENCE_THRESHOLD), Unbindable, "acronym")
NotADict(k) == Plain(Fix(k))
OverOne(k) == Data(AllFields, Fix(k), Num(150), "r1", "acronym")

RawValues(k) ==
    {High(k), Low(k), OnlyTerm(k), TextConfidence(k), NoTerm(k), EmptyTerm(k),
     ListReasoning(k), NotADict(k), OverOne(k)}

\* The JSON objects: empty, one key, two keys.
Responses ==
    {<<>>, <<<<Empty, High(jupe)>>>>}
    \cup {<<<<jupe, d>>>> : d \in RawValues(jupe)}
    \cup {<<<<the_dow, d>>>> : d \in {High(the_dow), Low(the_dow)}}
    \cup {<<<<jupe, d1>>, <<the_dow, d2>>>> :
             d1 \in RawValues(jupe),
             d2 \in {High(the_dow), Low(the_dow), TextConfidence(the_dow)}}

Answers ==
    {Answer(kind, <<>>) : kind \in {"raise", "empty", "unparsable", "array"}}
    \cup {Answer("object", r) : r \in Responses}

\* What the service has ready when the run is started as the code starts it.
ReadyAnswers ==
    {Answer("raise", <<>>), Answer("object", <<>>)}
    \cup {Answer("object", <<<<k, High(k)>>>>) : k \in Keys}

\* The catalogs as load_term_context / load_people_context return them.
TermCatalogs == {Catalog(<<>>), Catalog(<<Entry(Jupiter, <<JUP>>), Str(the_DAO)>>)}
PeopleCatalogs == {Catalog(<<>>)}

\* The lists as _load_known_terms / _load_known_names return them.
TermLists == {List(<<>>), List(<<Jupiter, the_DAO>>), List(<<Jupiter, terms_word>>)}
NameLists == {List(<<>>), List(<<people_word>>)}

\* The calls of the concurrent writers: add_term_correction by hand, and
\* add_multiple_term_corrections with the findings of another run.
Canon(k) == IF k = jupe THEN JUP ELSE the_DAO

ManualCall(k, v, c) ==
    [op |-> "add_term_correction", corrections |-> <<>>, source |-> "manual",
     args |-> Params(k, v, Num(c), None, "term", "manual")]

WriterCalls ==
    {ManualCall(jupe, JUP, c) :
        c \in {30, MEDIUM_CONFIDENCE_THRESHOLD, HIGH_CONFIDENCE_THRESHOLD}}
    \cup {ManualCall(the_dow, the_DAO, MEDIUM_CONFIDENCE_THRESHOLD)}
    \cup {ManualCall(Empty, JUP, DefaultManualConfidence),
          ManualCall(jupe, Empty, DefaultManualConfidence)}
    \cup {[op |-> "add_multiple_term_corrections", corrections |-> r,
           source |-> "llm_identified",
           args |-> Params(Empty, Empty, Num(0), None, "term", "llm_identified")] :
             r \in {<<<<jupe, Data(AllFields, Jupiter, NotANumber, "r1", "acronym")>>>>,
                    <<<<the_dow, Plain(the_DAO)>>,
                      <<jupe, Data(AllFields, Jupiter, Num(MEDIUM_CONFIDENCE_THRESHOLD),
                                   "r2", "term")>>>>,
                    <<<<the_dow, Plain(the_DAO)>>,
                      <<jupe, Data(AllFields, Jupiter, Num(HIGH_CONFIDENCE_THRESHOLD),
                                   Unbindable, "term")>>>>}}

RunCall == [op |-> "add_multiple_term_corrections",
            corrections |-> llm_correction_data.items,
            source |-> "llm_identified",
            args |-> Params(Empty, Empty, Num(0), None, "term", "llm_identified")]

-----------------------------------------------------------------------------
(* The state after import: initialize_database has created the empty table.*)

NoDicts == [A |-> <<>>, C |-> <<>>, D |-> <<>>]

Init ==
    /\ table = {}
    /\ lock = "free"
    /\ pending = [p \in Procs |-> NoTx]
    /\ now = 0
    /\ calls = 0
    /\ last_commit = [k \in Keys |-> NoCommit]
    /\ pc = "idle"
    /\ transcript = Empty
    /\ known_terms = List(<<>>)
    /\ known_names = List(<<>>)
    /\ high_confidence_corrections = <<>>
    /\ partially_corrected = Empty
    /\ llm_correction_data = NoFindings
    /\ high_confidence_new = <<>>
    /\ all_corrections = <<>>
    /\ medium_corrections = <<>>
    /\ final_transcript = Empty
    /\ service = Answer("unset", <<>>)
    /\ service_calls = 0
    /\ persisted = "no"
    /\ store_changed = FALSE
    /\ handed = NoDicts
    /\ read_ok = [A |-> FALSE, D |-> FALSE]
    /\ reply = NoReply
    /\ generator = NoRequest

-----------------------------------------------------------------------------
(* The concurrent writers.                                                 *)

WriterExecute(w) ==
    /\ calls < MaxCalls
    /\ \E call \in WriterCalls : Execute(w, call)
    /\ calls' = calls + 1
    /\ UNCHANGED run_vars

WriterNoWrite(w) ==
    /\ calls < MaxCalls
    /\ \E call \in WriterCalls : NoWrite(w, call)
    /\ UNCHANGED <<calls, run_vars>>

WriterRejected(w) ==
    /\ calls < MaxCalls
    /\ \E call \in WriterCalls : Rejected(w, call)
    /\ UNCHANGED <<calls, run_vars>>

WriterCommit(w) ==
    /\ w # "run"
    /\ CommitTx(w)
    /\ store_changed' = (store_changed \/ pc # "idle")
    /\ UNCHANGED <<calls, pc, transcript, known_terms, known_names,
                   high_confidence_corrections, partially_corrected,
                   llm_correction_data, high_confidence_new, all_corrections,
                   medium_corrections, final_transcript, service, service_calls,
                   persisted, handed, read_ok, reply, generator>>

WriterRollback(w) ==
    /\ w # "run"
    /\ RollbackTx(w)
    /\ UNCHANGED <<calls, run_vars>>

Tick ==
    /\ now < MaxClock
    /\ now' = now + 1
    /\ UNCHANGED <<table, lock, pending, calls, last_commit, run_vars>>

-----------------------------------------------------------------------------
(* correct_jupiter_terms.                                                  *)

\* Python's float <= x and x >= float raise TypeError when x is a str.
Comparable(confidence) == confidence.t = "float"

\* Mutant of FilterHigh: every finding is taken, whatever its confidence.
RECURSIVE FilterHigh_NoThreshold(_, _)
FilterHigh_NoThreshold(items, dict) ==
    IF items = <<>> THEN [raised |-> FALSE, dict |-> dict]
    ELSE IF ~Comparable(Head(items)[2].confidence)
         THEN [raised |-> TRUE, dict |-> dict]
         ELSE FilterHigh_NoThreshold(
                  Tail(items), DictSet(dict, Head(items)[1], Head(items)[2].term))

\* Lines 156-159: the loop that builds high_confidence_new.  It stops with a
\* TypeError at the first finding whose confidence is no number.
RECURSIVE FilterHigh(_, _)
FilterHigh(items, dict) ==
    IF items = <<>> THEN [raised |-> FALSE, dict |-> dict]
    ELSE LET incorrect == Head(items)[1]
             data == Head(items)[2]
         IN IF ~Comparable(data.confidence) THEN [raised |-> TRUE, dict |-> dict]
            ELSE IF data.confidence.v >= HIGH_CONFIDENCE_THRESHOLD
                 THEN FilterHigh(Tail(items), DictSet(dict, incorrect, data.term))
                 ELSE FilterHigh(Tail(items), dict)

\* Mutant of FilterMedium: the upper bound of line 182 is missing.
RECURSIVE FilterMedium_NoUpperBound(_, _, _)
FilterMedium_NoUpperBound(items, applied, dict) ==
    IF items = <<>> THEN [raised |-> FALSE, dict |-> dict]
    ELSE LET incorrect == Head(items)[1]
             data == Head(items)[2]
         IN IF ~Comparable(data.confidence) THEN [raised |-> TRUE, dict |-> dict]
            ELSE IF /\ MEDIUM_CONFIDENCE_THRESHOLD <= data.confidence.v
                    /\ incorrect \notin DictKeys(applied)
                 THEN FilterMedium_NoUpperBound(Tail(items), applied,
                                                DictSet(dict, incorrect, data.term))
                 ELSE FilterMedium_NoUpperBound(Tail(items), applied, dict)

\* Mutant of FilterMedium: the test of line 183 is missing.
RECURSIVE FilterMedium_NoExclusion(_, _, _)
FilterMedium_NoExclusion(items, applied, dict) ==
    IF items = <<>> THEN [raised |-> FALSE, dict |-> dict]
    ELSE LET incorrect == Head(items)[1]
             data == Head(items)[2]
         IN IF ~Comparable(data.confidence) THEN [raised |-> TRUE, dict |-> dict]
            ELSE IF /\ MEDIUM_CONFIDENCE_THRESHOLD <= data.confidence.v
                    /\ data.confidence.v < HIGH_CONFIDENCE_THRESHOLD
                 THEN FilterMedium_NoExclusion(Tail(items), applied,
                                               DictSet(dict, incorrect, data.term))
                 ELSE FilterMedium_NoExclusion(Tail(items), applied, dict)

\* Lines 178-184: the loop that builds medium_corrections.
RECURSIVE FilterMedium(_, _, _)
FilterMedium(items, applied, dict) ==
    IF items = <<>> THEN [raised |-> FALSE, dict |-> dict]
    ELSE LET incorrect == Head(items)[1]
             data == Head(items)[2]
         IN IF ~Comparable(data.confidence) THEN [raised |-> TRUE, dict |-> dict]
            ELSE IF /\ MEDIUM_CONFIDENCE_THRESHOLD <= data.confidence.v
                    /\ data.confidence.v < HIGH_CONFIDENCE_THRESHOLD
                    /\ incorrect \notin DictKeys(applied)
                 THEN FilterMedium(Tail(items), applied,
                                   DictSet(dict, incorrect, data.term))
                 ELSE FilterMedium(Tail(items), applied, dict)

\* Mutant of Begin: no early return for an empty transcript.
Begin_NoEarlyReturn(text, terms, names, answer) ==
    /\ pc = "idle"
    /\ transcript' = text
    /\ service' = answer
    /\ pc' = "A"
    /\ known_terms' = terms
    /\ known_names' = names
    /\ UNCHANGED <<store_vars, high_confidence_corrections, partially_corrected,
                   llm_correction_data, high_confidence_new, all_corrections,
                   medium_corrections, final_transcript, service_calls, persisted,
                   store_changed, handed, read_ok, reply, generator>>

\* Lines 118-125.  An empty transcript returns "" at once.
Begin(text, terms, names, answer) ==
    /\ pc = "idle"
    /\ transcript' = text
    /\ service' = answer
    /\ IF text = Empty
       THEN /\ pc' = "done"
            /\ final_transcript' = Empty
            /\ UNCHANGED <<known_terms, known_names>>
       ELSE /\ pc' = "A"
            /\ known_terms' = terms
            /\ known_names' = names
            /\ UNCHANGED final_transcript
    /\ UNCHANGED <<store_vars, high_confidence_corrections, partially_corrected,
                   llm_correction_data, high_confidence_new, all_corrections,
                   medium_corrections, service_calls, persisted, store_changed,
                   handed, read_ok, reply, generator>>

\* A run in which the Analyzer is handed the catalogs in the form it reads,
\* the dicts of load_term_context and load_people_context: the runs in which
\* the Analyzer can return findings and lines 152-163 are executed.  What the
\* service answers is settled when the run reaches Stage B.
Start ==
    \E text \in Transcripts, terms \in TermCatalogs, names \in PeopleCatalogs :
        Begin(text, terms, names, Answer("unset", <<>>))

\* A run as the code starts it: _load_known_terms and _load_known_names.
StartWired ==
    \E text \in Transcripts, terms \in TermLists, names \in NameLists,
       answer \in ReadyAnswers :
        Begin(text, terms, names, answer)

\* Lines 127-136.  Nothing catches what get_all_term_corrections or
\* _apply_corrections raises here.
StageA ==
    /\ pc = "A"
    /\ \E failure \in StoreFailures :
       \E corrections \in get_all_term_corrections(Reaches(failure),
                                                   HIGH_CONFIDENCE_THRESHOLD, {}) :
          LET applied == IF corrections # <<>>
                         THEN apply_corrections(transcript, corrections)
                         ELSE Returned(transcript)
          IN /\ read_ok' = [read_ok EXCEPT !.A = Reaches(failure)]
             /\ IF Propagates(failure)
                THEN /\ pc' = "raised"
                     /\ UNCHANGED <<high_confidence_corrections,
                                    partially_corrected, handed>>
                ELSE /\ high_confidence_corrections' = corrections
                     /\ partially_corrected' =
                           IF applied.raised THEN partially_corrected
                           ELSE applied.text
                     /\ handed' = [handed EXCEPT !.A = corrections]
                     /\ pc' = IF applied.raised THEN "raised" ELSE "B"
    /\ UNCHANGED <<store_vars, transcript, known_terms, known_names,
                   llm_correction_data, high_confidence_new, all_corrections,
                   medium_corrections, final_transcript, service, service_calls,
                   persisted, store_changed, reply, generator>>

\* Lines 139-150 and 164-167: the Analyzer is awaited; what it raises is
\* caught and logged.
StageB ==
    /\ pc = "B"
    /\ \E answer \in IF service.kind = "unset" THEN Answers ELSE {service} :
         LET result == IF Truthy(known_terms) \/ Truthy(known_names)
                       THEN analyze_transcript_for_term_errors(
                                partially_corrected, known_terms, known_names, answer)
                       ELSE [raised |-> FALSE, called |-> FALSE, value |-> NoFindings]
         IN /\ service' = IF result.called THEN answer ELSE service
            /\ llm_correction_data' = result.value
            /\ service_calls' = IF result.called THEN service_calls + 1 ELSE service_calls
            /\ pc' = IF result.value.items # <<>> THEN "C" ELSE "D"
    /\ UNCHANGED <<store_vars, transcript, known_terms, known_names,
                   high_confidence_corrections, partially_corrected,
                   high_confidence_new, all_corrections, medium_corrections,
                   final_transcript, persisted, store_changed, handed, read_ok, reply, generator>>

UnchangedByPersist ==
    UNCHANGED <<calls, transcript, known_terms, known_names,
                high_confidence_corrections, partially_corrected,
                llm_correction_data, high_confidence_new, all_corrections,
                medium_corrections, final_transcript, service, service_calls,
                store_changed, handed, read_ok, reply, generator>>

\* Line 153, add_multiple_term_corrections(llm_correction_data): the batch is
\* executed in a transaction, ...
StageC_PersistExecute ==
    /\ pc = "C"
    /\ Execute("run", RunCall)
    /\ pc' = "C_commit"
    /\ UNCHANGED persisted
    /\ UnchangedByPersist

\* ... or no row of it is valid, or a value of it cannot be bound, ...
StageC_PersistRejected ==
    /\ pc = "C"
    /\ \/ Statement(RunCall) = <<>> /\ NoWrite("run", RunCall)
       \/ Rejected("run", RunCall)
    /\ persisted' = "rejected"
    /\ pc' = "C_filter"
    /\ UnchangedByPersist

\* ... or the store is unavailable (no connection, the lock not obtained).
StageC_PersistUnavailable ==
    /\ pc = "C"
    /\ NoWrite("run", RunCall)
    /\ persisted' = "unavailable"
    /\ pc' = "C_filter"
    /\ UnchangedByPersist

\* ... or _get_connection raises: the except clause of line 166 catches it,
\* and lines 155-163 are not executed.
StageC_PersistRaises ==
    /\ pc = "C"
    /\ llm_correction_data.items # <<>>
    /\ NoWrite("run", RunCall)
    /\ persisted' = "raised"
    /\ pc' = "D"
    /\ UnchangedByPersist

StageC_Commit ==
    /\ pc = "C_commit"
    /\ CommitTx("run")
    /\ persisted' = "committed"
    /\ pc' = "C_filter"
    /\ UnchangedByPersist

StageC_Rollback ==
    /\ pc = "C_commit"
    /\ RollbackTx("run")
    /\ persisted' = "unavailable"
    /\ pc' = "C_filter"
    /\ UnchangedByPersist

\* Lines 155-167: the new high-confidence findings are applied, unless the
\* loop raised, which the except clause of line 166 catches.
StageC_Filter ==
    /\ pc = "C_filter"
    /\ LET new == FilterHigh(llm_correction_data.items, <<>>)
       IN /\ high_confidence_new' = new.dict
          /\ IF ~new.raised /\ new.dict # <<>>
             THEN LET applied == apply_corrections(partially_corrected, new.dict)
                  IN /\ partially_corrected' =
                           IF applied.raised THEN partially_corrected
                           ELSE applied.text
                     /\ handed' = [handed EXCEPT !.C = new.dict]
             ELSE UNCHANGED <<partially_corrected, handed>>
    /\ pc' = "D"
    /\ UNCHANGED <<store_vars, transcript, known_terms, known_names,
                   high_confidence_corrections, llm_correction_data,
                   all_corrections, medium_corrections, final_transcript,
                   service, service_calls, persisted, store_changed, read_ok, reply, generator>>

\* Lines 169-194.  Nothing catches what get_term_corrections_with_metadata
\* raises, nor a TypeError of the loop.
StageD ==
    /\ pc = "D"
    /\ \E failure \in StoreFailures :
       \E corrections \in
            get_term_corrections_with_metadata(Reaches(failure),
                                               MEDIUM_CONFIDENCE_THRESHOLD, {}) :
          LET medium == FilterMedium(corrections, high_confidence_corrections, <<>>)
              applied == IF medium.dict # <<>>
                         THEN apply_corrections(partially_corrected, medium.dict)
                         ELSE Returned(partially_corrected)
          IN /\ read_ok' = [read_ok EXCEPT !.D = Reaches(failure)]
             /\ IF Propagates(failure)
                THEN /\ pc' = "raised"
                     /\ UNCHANGED <<all_corrections, medium_corrections,
                                    final_transcript, handed>>
                ELSE /\ all_corrections' = corrections
                     /\ medium_corrections' = medium.dict
                     /\ IF medium.raised
                        THEN /\ pc' = "raised"
                             /\ UNCHANGED <<final_transcript, handed>>
                        ELSE /\ pc' = IF applied.raised THEN "raised" ELSE "done"
                             /\ final_transcript' =
                                   IF applied.raised THEN final_transcript
                                   ELSE applied.text
                             /\ handed' = [handed EXCEPT !.D = medium.dict]
    /\ UNCHANGED <<store_vars, transcript, known_terms, known_names,
                   high_confidence_corrections, partially_corrected,
                   llm_correction_data, high_confidence_new, service,
                   service_calls, persisted, store_changed, reply, generator>>

Stages ==
    \/ StageA
    \/ StageB
    \/ StageC_PersistExecute
    \/ StageC_PersistRejected
    \/ StageC_PersistUnavailable
    \/ StageC_PersistRaises
    \/ StageC_Commit
    \/ StageC_Rollback
    \/ StageC_Filter
    \/ StageD

Writer(w) ==
    \/ WriterExecute(w)
    \/ WriterNoWrite(w)
    \/ WriterRejected(w)
    \/ WriterCommit(w)
    \/ WriterRollback(w)

-----------------------------------------------------------------------------
(* Spec: one run of correct_jupiter_terms, with the catalogs in the form   *)
(* the Analyzer reads, beside a concurrent writer of the store.            *)

Next ==
    \/ Start
    \/ Stages
    \/ Writer("w1")

Spec == Init /\ [][Next]_vars

-----------------------------------------------------------------------------
(* SpecWired: one run as correct_jupiter_terms really starts it, with the  *)
(* lists of _load_known_terms and _load_known_names handed to the Analyzer.*)
(* Stage C is not among the steps: InvWiredSkipsStageC shows that no run   *)
(* of this specification reaches it.                                       *)

NextWired ==
    \/ StartWired
    \/ StageA
    \/ StageB
    \/ StageD
    \/ Writer("w1")

SpecWired == Init /\ [][NextWired]_vars

InvWiredSkipsStageC == pc \notin {"C", "C_commit", "C_filter"}

-----------------------------------------------------------------------------
(* SpecStore: two concurrent writers of the store, a reader and the clock. *)

QueryOps == {"get_all_term_corrections", "get_term_corrections_with_metadata"}
MinConfidences == {0, MEDIUM_CONFIDENCE_THRESHOLD, HIGH_CONFIDENCE_THRESHOLD}
TypeLists == {{}, {"term"}, {"acronym", "person"}}

\* A caller reads the store: get_all_term_corrections or
\* get_term_corrections_with_metadata with a min_confidence and with
\* correction_types left out (None) or given, the empty list included.  The
\* SELECT sees the committed rows.
Query ==
    /\ calls < MaxCalls
    /\ \E op \in QueryOps, min_confidence \in MinConfidences,
          types_given \in BOOLEAN, correction_types \in TypeLists,
          failure \in StoreFailures :
          /\ ~types_given => correction_types = {}
          /\ \E value \in
                IF op = "get_all_term_corrections"
                THEN get_all_term_corrections(Reaches(failure), min_confidence,
                                              correction_types)
                ELSE get_term_corrections_with_metadata(Reaches(failure),
                                                        min_confidence,
                                                        correction_types) :
                reply' = Reply(op, min_confidence, types_given, correction_types,
                               failure, value, table)
    /\ calls' = calls + 1
    /\ UNCHANGED <<table, lock, pending, now, last_commit, stage_vars, generator>>

\* A caller's add_term_correction or add_multiple_term_corrections does not
\* reach the table: no connection, the statement fails, or mkdir raises.  A
\* call that returns at its guard opens no connection.
WriteFails(w) ==
    /\ calls < MaxCalls
    /\ \E call \in WriterCalls, failure \in StoreFailures \ {"none"} :
          /\ call.op = "add_term_correction" => Statement(call) # <<>>
          /\ call.op = "add_multiple_term_corrections" => call.corrections # <<>>
          /\ failure = "statement" => Statement(call) # <<>>
          /\ NoWrite(w, call)
          /\ reply' = Reply(call.op, 0, FALSE, {}, failure, <<>>, table)
    /\ calls' = calls + 1
    /\ UNCHANGED <<stage_vars, generator>>

NextStore ==
    \/ Writer("w1")
    \/ Writer("w2")
    \/ Query
    \/ WriteFails("w1")
    \/ WriteFails("w2")
    \/ Tick

SpecStore == Init /\ [][NextStore]_vars

-----------------------------------------------------------------------------
(* SpecApply: _apply_corrections on its own.  The text is in transcript,   *)
(* the dict it is called with in handed.A; partially_corrected is what the *)
(* call returns and final_transcript what a second call with the same dict *)
(* returns for that.                                                       *)

perp == <<"p", "e", "r", "p">>
Perps == <<"P", "e", "r", "p", "s">>
perp_dex == <<"p", "e", "r", "p", " ", "d", "e", "x">>
Perps_DEX == <<"P", "e", "r", "p", "s", " ", "D", "E", "X">>
cpp == <<"c", "+", "+">>
CPP == <<"C", "+", "+">>

ApplyTexts ==
    {<<"a", " ", "p", "e", "r", "p", " ", "d", "e", "x", " ", "e", "x", "i", "s", "t", "s">>,
     <<"p", "e", "r", "p", "e", "n", "d", "i", "c", "u", "l", "a", "r", " ", "P", "E", "R", "P", ",", " ", "P", "e", "r", "p">>,
     <<"p", "e", "r", "p">>,
     <<"a", " ", "c">>,
     <<"u", "s", "e", " ", "c", "+", "+", " ", "n", "o", "w">>,
     <<"p", "e", "r", "p", "_", "2", " ", "p", "e", "r", "p">>}

\* The rules: a plain one, one for a phrase, one that only changes the case,
\* one whose correct term holds its incorrect term, two that chain, one whose
\* key ends in characters that are no word characters, and three whose
\* correct term holds a backslash.
ApplyRules ==
    {<<perp, Perps>>, <<perp_dex, Perps_DEX>>,
     <<perp, <<"P", "E", "R", "P">>>>, <<perp, perp_dex>>,
     <<<<"a">>, <<"b">>>>, <<<<"b", " ", "c">>, <<"D">>>>,
     <<cpp, CPP>>,
     <<perp, <<"P", "\\", "D">>>>, <<perp, <<"P", "\\", "n">>>>,
     <<perp, <<"\\", "g", "<", "0", ">", "s">>>>}

ApplyMappings ==
    {<<>>}
    \cup {<<rule>> : rule \in ApplyRules}
    \cup {<<<<perp, Perps>>, <<perp_dex, Perps_DEX>>>>,
          <<<<perp_dex, Perps_DEX>>, <<perp, Perps>>>>,
          <<<<<<"a">>, <<"b">>>>, <<<<"b", " ", "c">>, <<"D">>>>>>,
          <<<<<<"b", " ", "c">>, <<"D">>>>, <<<<"a">>, <<"b">>>>>>,
          <<<<perp, <<"P", "E", "R", "P">>>>, <<<<"a">>, <<"b">>>>>>}

InitApply ==
    /\ table = {}
    /\ lock = "free"
    /\ pending = [p \in Procs |-> NoTx]
    /\ now = 0
    /\ calls = 0
    /\ last_commit = [k \in Keys |-> NoCommit]
    /\ pc = "apply"
    /\ transcript \in ApplyTexts
    /\ known_terms = List(<<>>)
    /\ known_names = List(<<>>)
    /\ high_confidence_corrections = <<>>
    /\ partially_corrected = Empty
    /\ llm_correction_data = NoFindings
    /\ high_confidence_new = <<>>
    /\ all_corrections = <<>>
    /\ medium_corrections = <<>>
    /\ final_transcript = Empty
    /\ service = Answer("unset", <<>>)
    /\ service_calls = 0
    /\ persisted = "no"
    /\ store_changed = FALSE
    /\ \E corrections \in ApplyMappings :
          handed = [A |-> corrections, C |-> <<>>, D |-> <<>>]
    /\ read_ok = [A |-> FALSE, D |-> FALSE]
    /\ reply = NoReply
    /\ generator = NoRequest

UnchangedByApply ==
    UNCHANGED <<store_vars, transcript, known_terms, known_names,
                high_confidence_corrections, llm_correction_data,
                high_confidence_new, all_corrections, medium_corrections,
                service, service_calls, persisted, store_changed, handed, read_ok, reply, generator>>

\* _apply_corrections(transcript, corrections)
ApplyOnce ==
    /\ pc = "apply"
    /\ LET applied == apply_corrections(transcript, handed.A)
       IN /\ pc' = IF applied.raised THEN "apply_raised" ELSE "applied"
          /\ partially_corrected' = applied.text
    /\ UNCHANGED final_transcript
    /\ UnchangedByApply

\* _apply_corrections on what the first call returned, with the same dict
ApplyAgain ==
    /\ pc = "applied"
    /\ LET applied == apply_corrections(partially_corrected, handed.A)
       IN /\ pc' = IF applied.raised THEN "apply_raised" ELSE "reapplied"
          /\ final_transcript' = applied.text
    /\ UNCHANGED partially_corrected
    /\ UnchangedByApply

NextApply ==
    \/ ApplyOnce
    \/ ApplyAgain

SpecApply == InitApply /\ [][NextApply]_vars

-----------------------------------------------------------------------------
(* SpecRetry: one call of generate_response_with_retry on a new            *)
(* VertexAIGenerator.                                                      *)

InitRetry ==
    /\ table = {}
    /\ lock = "free"
    /\ pending = [p \in Procs |-> NoTx]
    /\ now = 0
    /\ calls = 0
    /\ last_commit = [k \in Keys |-> NoCommit]
    /\ pc = "idle"
    /\ transcript = Empty
    /\ known_terms = List(<<>>)
    /\ known_names = List(<<>>)
    /\ high_confidence_corrections = <<>>
    /\ partially_corrected = Empty
    /\ llm_correction_data = NoFindings
    /\ high_confidence_new = <<>>
    /\ all_corrections = <<>>
    /\ medium_corrections = <<>>
    /\ final_transcript = Empty
    /\ service = Answer("unset", <<>>)
    /\ service_calls = 0
    /\ persisted = "no"
    /\ store_changed = FALSE
    /\ handed = NoDicts
    /\ read_ok = [A |-> FALSE, D |-> FALSE]
    /\ reply = NoReply
    /\ \E lesser_model \in BOOLEAN :
          generator = [NoRequest EXCEPT !.pc = "attempt",
                                        !.lesser_model = lesser_model]

\* Lines 108-134 and 147-150: the loop test, generate_response (which sets
\* the model when lesser_model is set, lines 186-187) and the except clause
\* up to the sleep.
Attempt ==
    /\ generator.pc = "attempt"
    /\ IF ~(generator.retry_count <= max_retries)
       THEN generator' = [generator EXCEPT !.pc = "raised_unexpected"]
       ELSE \E error \in ServiceErrors \cup {NoError}, u \in {-1, 0, 1} :
              LET model_id == IF generator.lesser_model
                              THEN set_model_id(generator.lesser_model)
                              ELSE generator.model_id
                  tried == Append(generator.tried,
                                  [retry_count |-> generator.retry_count,
                                   model_id |-> model_id,
                                   model_used |-> IF generator.lesser_model
                                                  THEN "lesser" ELSE "standard",
                                   error |-> error])
                  next == [generator EXCEPT !.model_id = model_id, !.tried = tried]
              IN generator' =
                    IF error = NoError
                    THEN [next EXCEPT !.pc = "returned"]
                    ELSE IF handle_quota_error(error)
                    THEN IF Exhausted(generator.retry_count)
                         THEN [next EXCEPT !.pc = "raised_quota"]
                         ELSE [next EXCEPT !.pc = "sleep",
                                           !.delay = calculate_retry_delay(
                                                         generator.retry_count, u)]
                    ELSE [next EXCEPT !.pc = "raised_error"]
    /\ UNCHANGED <<store_vars, stage_vars, reply>>

\* Lines 139-146: the sleep is over, the retry is counted, and the first
\* retry of a call on the standard model switches to the lesser model.
Backoff ==
    /\ generator.pc = "sleep"
    /\ LET retry_count == generator.retry_count + 1
           switch == ~generator.lesser_model /\ retry_count % 2 = 1
       IN generator' =
             [generator EXCEPT
                 !.pc = "attempt",
                 !.retry_count = retry_count,
                 !.lesser_model = IF switch THEN TRUE ELSE generator.lesser_model,
                 !.model_id = IF switch THEN set_model_id(TRUE)
                              ELSE generator.model_id]
    /\ UNCHANGED <<store_vars, stage_vars, reply>>

NextRetry ==
    \/ Attempt
    \/ Backoff

SpecRetry == InitRetry /\ [][NextRetry]_vars

\* The service answers every request and every sleep ends.
SpecRetryFair == SpecRetry /\ WF_vars(Attempt) /\ WF_vars(Backoff)

-----------------------------------------------------------------------------
(* SpecAnalyze: analyze_transcript_for_term_errors on its own, awaited as  *)
(* Stage B awaits it, with the catalogs in the form it reads, people       *)
(* included, and the parsed answer of the service ready.                   *)

Meow == <<"M", "e", "o", "w">>
cat == <<"c", "a", "t">>

\* {"people": [...]}: no entry, a string, a dict with name and nicknames, an
\* entry whose nickname repeats its name beside one that shares a nickname.
PeopleDicts ==
    {Catalog(<<>>), Catalog(<<Str(Meow)>>), Catalog(<<Entry(Meow, <<cat, Empty>>)>>),
     Catalog(<<Entry(Meow, <<Meow, cat>>), Entry(Jupiter, <<cat>>)>>)}

\* The values of the answer under one key: a name or a nickname without a
\* correction_type, a name with one, and values of RawValues.
AnalyzeValues(k) ==
    {Data({"term"}, Meow, Num(0), None, "term"),
     Data({"term", "confidence"}, cat, Num(90), None, "term"),
     Data(AllFields, Meow, Num(HIGH_CONFIDENCE_THRESHOLD), "r1", "term"),
     Data({"term", "correction_type"}, Fix(k), Num(0), None, "acronym"),
     OnlyTerm(k), TextConfidence(k), NoTerm(k), EmptyTerm(k), NotADict(k)}

AnalyzeResponses ==
    {<<>>}
    \cup {<<<<jupe, d>>>> : d \in AnalyzeValues(jupe)}
    \cup {<<<<jupe, d1>>, <<the_dow, d2>>>> :
             d1 \in AnalyzeValues(jupe), d2 \in AnalyzeValues(the_dow)}

InitAnalyze ==
    /\ table = {}
    /\ lock = "free"
    /\ pending = [p \in Procs |-> NoTx]
    /\ now = 0
    /\ calls = 0
    /\ last_commit = [k \in Keys |-> NoCommit]
    /\ pc = "B"
    /\ transcript = jupe \o comma \o the_dow
    /\ known_terms \in TermCatalogs
    /\ known_names \in PeopleDicts
    /\ high_confidence_corrections = <<>>
    /\ partially_corrected = transcript
    /\ llm_correction_data = NoFindings
    /\ high_confidence_new = <<>>
    /\ all_corrections = <<>>
    /\ medium_corrections = <<>>
    /\ final_transcript = Empty
    /\ \E r \in AnalyzeResponses : service = Answer("object", r)
    /\ service_calls = 0
    /\ persisted = "no"
    /\ store_changed = FALSE
    /\ handed = NoDicts
    /\ read_ok = [A |-> TRUE, D |-> FALSE]
    /\ reply = NoReply
    /\ generator = NoRequest

NextAnalyze == StageB

SpecAnalyze == InitAnalyze /\ [][NextAnalyze]_vars

-----------------------------------------------------------------------------
(* SpecTies: one run of correct_jupiter_terms, as the code starts it, on a *)
(* store that already holds rows, some with incorrect terms of equal       *)
(* length, and with a service that returns no findings.                    *)

key_ab == <<"a", "b">>
key_cd == <<"c", "d">>
key_ef == <<"e", "f">>
key_cde == <<"c", "d", "e">>

TieTexts ==
    {<<"s", "a", "y", " ", "a", "b", " ", "n", "o", "w">>,
     <<"a", "b", " ", "c", "d">>,
     <<"c", "d", "e", " ", "a", "b">>}

\* The rows two upserts by hand leave in an empty store.
StoredPair(k1, v1, c1, k2, v2, c2) ==
    {InsertedRow(1, Params(k1, v1, Num(c1), None, "term", "manual"), 0),
     InsertedRow(2, Params(k2, v2, Num(c2), None, "term", "manual"), 0)}

\* Two keys of equal length whose rules chain (high, medium) or do not, two
\* whose rules chain and whose keys differ in length, and one of each level.
TieTables ==
    {StoredPair(key_ab, key_cd, 90, key_cd, key_ef, 90),
     StoredPair(key_ab, key_cd, 65, key_cd, key_ef, 65),
     StoredPair(key_ab, key_ef, 90, key_cd, key_ef, 90),
     StoredPair(key_ab, key_cde, 90, key_cde, key_ef, 90),
     StoredPair(key_ab, key_cd, 90, key_cd, key_ef, 65)}

InitTies ==
    /\ table \in TieTables
    /\ lock = "free"
    /\ pending = [p \in Procs |-> NoTx]
    /\ now = 0
    /\ calls = 0
    /\ last_commit = [k \in Keys |-> NoCommit]
    /\ pc = "idle"
    /\ transcript = Empty
    /\ known_terms = List(<<>>)
    /\ known_names = List(<<>>)
    /\ high_confidence_corrections = <<>>
    /\ partially_corrected = Empty
    /\ llm_correction_data = NoFindings
    /\ high_confidence_new = <<>>
    /\ all_corrections = <<>>
    /\ medium_corrections = <<>>
    /\ final_transcript = Empty
    /\ service = Answer("unset", <<>>)
    /\ service_calls = 0
    /\ persisted = "no"
    /\ store_changed = FALSE
    /\ handed = NoDicts
    /\ read_ok = [A |-> FALSE, D |-> FALSE]
    /\ reply = NoReply
    /\ generator = NoRequest

StartTies ==
    \E text \in TieTexts, terms \in TermLists, names \in NameLists,
       answer \in {Answer("raise", <<>>), Answer("object", <<>>)} :
        Begin(text, terms, names, answer)

NextTies ==
    \/ StartTies
    \/ StageA
    \/ StageB
    \/ StageD

SpecTies == InitTies /\ [][NextTies]_vars

-----------------------------------------------------------------------------
(* Vocabulary of the properties.                                           *)

Stage == {"A", "C", "D"}
HandedKeys(st) == DictKeys(handed[st])
FindingItems == llm_correction_data.items
Ended == pc \in {"done", "raised"}

IsHigh(confidence) ==
    Comparable(confidence) /\ confidence.v >= HIGH_CONFIDENCE_THRESHOLD
IsMedium(confidence) ==
    /\ Comparable(confidence)
    /\ MEDIUM_CONFIDENCE_THRESHOLD <= confidence.v
    /\ confidence.v < HIGH_CONFIDENCE_THRESHOLD
IsLow(confidence) ==
    Comparable(confidence) /\ confidence.v < MEDIUM_CONFIDENCE_THRESHOLD

\* The rows t hold a record of the finding item = <<incorrect, data>>.
Stored(item, t) ==
    \E r \in t :
        /\ r.incorrect_term = item[1]
        /\ r.correct_term = item[2].term
        /\ r.confidence = item[2].confidence
        /\ r.reasoning = (IF "reasoning" \in item[2].has THEN item[2].reasoning ELSE None)
        /\ r.correction_type = item[2].correction_type

WellFormed(item) == item[1] # Empty /\ item[2].term # Empty

\* The pairs of the dict in descending length of their keys, pairs with keys
\* of one length in the order given.
RECURSIVE LongestFirst(_)
LongestFirst(corrections) ==
    IF corrections = <<>> THEN <<>>
    ELSE LET longest == CHOOSE i \in DOMAIN corrections :
                 /\ \A j \in DOMAIN corrections :
                        Len(corrections[j][1]) <= Len(corrections[i][1])
                 /\ \A j \in 1..(i - 1) :
                        Len(corrections[j][1]) < Len(corrections[i][1])
             others == [j \in 1..(Len(corrections) - 1) |->
                           IF j < longest THEN corrections[j] ELSE corrections[j + 1]]
         IN <<corrections[longest]>> \o LongestFirst(others)

\* An occurrence of incorrect at position i of text, in any letter case, with
\* no word character next to it on either side.
WholeWordAt(text, i, incorrect) ==
    /\ i + Len(incorrect) - 1 <= Len(text)
    /\ \A j \in 1..Len(incorrect) : Lower(text[i + j - 1]) = Lower(incorrect[j])
    /\ i > 1 => ~IsWord(text[i - 1])
    /\ i + Len(incorrect) <= Len(text) => ~IsWord(text[i + Len(incorrect)])

\* The text with every such occurrence, from the left, replaced by the
\* characters of correct as they are.
RECURSIVE Replaced(_, _, _, _)
Replaced(text, i, incorrect, correct) ==
    IF i > Len(text) THEN <<>>
    ELSE IF WholeWordAt(text, i, incorrect)
         THEN correct \o Replaced(text, i + Len(incorrect), incorrect, correct)
         ELSE <<text[i]>> \o Replaced(text, i + 1, incorrect, correct)

\* The pattern of incorrect matches somewhere in text.
HasMatch(text, incorrect) == \E i \in 1..Len(text) : MatchesAt(text, i, incorrect)

\* No rule's correct term is matched by another rule's pattern.
NoCrossMatch(corrections) ==
    \A i, j \in DOMAIN corrections :
        i # j => ~HasMatch(corrections[i][2], corrections[j][1])

\* A term made of words (runs of word characters) with single spaces between.
WordLike(term) ==
    /\ term # <<>>
    /\ \A i \in DOMAIN term :
          \/ IsWord(term[i])
          \/ /\ term[i] = " " /\ 1 < i /\ i < Len(term)
             /\ IsWord(term[i - 1]) /\ IsWord(term[i + 1])

LowerAll(term) == [i \in DOMAIN term |-> Lower(term[i])]

\* The words of a term, in lower case.
WordsOf(term) ==
    {LowerAll(SubSeq(term, a, b)) : <<a, b>> \in
        {ab \in (DOMAIN term) \X (DOMAIN term) :
            /\ ab[1] <= ab[2]
            /\ \A i \in ab[1]..ab[2] : IsWord(term[i])
            /\ ab[1] > 1 => ~IsWord(term[ab[1] - 1])
            /\ ab[2] < Len(term) => ~IsWord(term[ab[2] + 1])}}

\* Every term is made of words, and a word of a rule's correct term is a
\* word of a rule's incorrect term only within one rule that changes nothing
\* but the letter case.
NoSharedWord(corrections) ==
    /\ \A i \in DOMAIN corrections :
          WordLike(corrections[i][1]) /\ WordLike(corrections[i][2])
    /\ \A i, j \in DOMAIN corrections :
          WordsOf(corrections[i][2]) \cap WordsOf(corrections[j][1]) # {}
          => /\ i = j
             /\ LowerAll(corrections[i][2]) = LowerAll(corrections[i][1])

\* The answers with which the Analyzer fails: the service raised after its
\* retries, the content is empty, it is no JSON, it is no JSON object.
AnalyzerFailed == service.kind \in {"raise", "empty", "unparsable", "array"}

\* The text after the dicts handed to the Applier in Stages A and D.
CorrectedFromStore ==
    apply_corrections(apply_corrections(transcript, handed.A).text, handed.D).text

\* The run is past Stage A and Stage A's read of the store failed.
FailedAtA == transcript # Empty /\ pc \notin {"idle", "A"} /\ ~read_ok.A

\* Stage C's add_multiple_term_corrections could not reach the store.
FailedAtC == persisted \in {"unavailable", "raised"}

\* The run is past Stage D's read of the store, which failed.
FailedAtD ==
    /\ transcript # Empty /\ Ended /\ ~read_ok.D
    /\ ~apply_corrections(transcript, handed.A).raised

\* The last observed call was a query that reached the table.
Answered == reply.op \in QueryOps /\ Reaches(reply.failure)

\* The rows the query was asked for: a confidence that is a number of at
\* least min_confidence and, when a list of types was given, a
\* correction_type of that list.
Asked ==
    {r \in reply.seen :
        /\ r.confidence.t = "float" /\ r.confidence.v >= reply.min_confidence
        /\ reply.types_given => r.correction_type \in reply.correction_types}

\* The item of the returned dict is the row's: its correct_term, or its
\* record with every column.
ItemOf(r) ==
    IF reply.op = "get_all_term_corrections"
    THEN <<r.incorrect_term, r.correct_term>>
    ELSE <<r.incorrect_term,
           [term |-> r.correct_term, confidence |-> r.confidence,
            reasoning |-> r.reasoning, correction_type |-> r.correction_type,
            source |-> r.source, created_at |-> r.created_at,
            updated_at |-> r.updated_at]>>

\* The items of the dict stand in descending length of their keys.
LongestKeysFirst(dict) ==
    \A i, j \in DOMAIN dict : i < j => Len(dict[i][1]) >= Len(dict[j][1])

\* The texts that a run on this transcript and these rows returns when both
\* reads reach the table and the Analyzer has no findings: one for every
\* order in which the two SELECTs may return the rows.
RunTexts ==
    {apply_corrections(
         apply_corrections(transcript, a).text,
         FilterMedium(d, a, <<>>).dict).text :
        a \in get_all_term_corrections(TRUE, HIGH_CONFIDENCE_THRESHOLD, {}),
        d \in get_term_corrections_with_metadata(TRUE, MEDIUM_CONFIDENCE_THRESHOLD, {})}

\* The run has returned, both of its reads reached the table, and the
\* Analyzer had no findings.
ReturnedFromStore ==
    /\ pc = "done" /\ transcript # Empty
    /\ read_ok.A /\ read_ok.D /\ FindingItems = <<>>

\* No two rows have incorrect terms of equal length.
NoTies ==
    \A r1, r2 \in table :
        Len(r1.incorrect_term) = Len(r2.incorrect_term) => r1 = r2

\* The replacements earlier stages wrote into the text: the correct terms of
\* the rules of Stage A that matched in the transcript and of the rules of
\* Stage C that matched in the text Stage A left.
WrittenByHigh ==
    {handed.A[i][2] : i \in {j \in DOMAIN handed.A :
                                 HasMatch(transcript, handed.A[j][1])}}
    \cup {handed.C[i][2] : i \in {j \in DOMAIN handed.C :
               HasMatch(apply_corrections(transcript, handed.A).text, handed.C[j][1])}}

\* The i-th finding of the Analyzer is of medium confidence and its key was
\* not in the dict Stage A read; it is among the rules handed to Stage D.
MediumNew(i) ==
    /\ IsMedium(FindingItems[i][2].confidence)
    /\ FindingItems[i][1] \notin DictKeys(high_confidence_corrections)
AppliedInD(i) ==
    \E d \in DOMAIN handed.D :
        handed.D[d] = <<FindingItems[i][1], FindingItems[i][2].term>>

\* The rows t hold the finding item as a record written by Stage C.
Overwritten(item, t) ==
    /\ Stored(item, t)
    /\ \A r \in RowsOf(t, item[1]) : r.source = "llm_identified"

\* The call of generate_response_with_retry has ended; its last attempt.
CallEnded ==
    generator.pc \in {"returned", "raised_quota", "raised_error", "raised_unexpected"}
CallRaised == generator.pc \in {"raised_quota", "raised_error", "raised_unexpected"}
LastTried == generator.tried[Len(generator.tried)]

\* The Analyzer has returned after asking the service, which answered with
\* a JSON object.
Analyzed ==
    /\ pc \in {"C", "D"} /\ service_calls = 1 /\ service.kind = "object"

\* The names and nicknames of the people catalog the Analyzer was handed.
KnownPeople ==
    {e.term : e \in Range(known_names.items)}
    \cup UNION {Range(e.acronyms) \ {Empty} :
                   e \in {x \in Range(known_names.items) : x.kind = "dict"}}

\* The item of the answer as a finding: the model's term and reasoning, its
\* confidence or the default, its correction_type or the inferred one.
AsFinding(item) ==
    <<item[1],
      [item[2] EXCEPT
          !.has = @ \cup {"confidence", "correction_type"},
          !.confidence = IF "confidence" \in item[2].has THEN @
                         ELSE Num(DefaultAnalyzerConfidence),
          !.correction_type =
              IF "correction_type" \in item[2].has THEN @
              ELSE IF item[2].term \in KnownPeople THEN "person" ELSE "term"]>>

\* The strings a catalog names: entry names and aliases, the empty one aside.
NamedIn(data) ==
    ({e.term : e \in Range(data.items)}
     \cup UNION {Range(e.acronyms) : e \in Range(data.items)}) \ {Empty}

\* No string stands at two places of the list.
NoStringTwice(list) ==
    \A i, j \in DOMAIN list : list[i] = list[j] => i = j

\* The row carries exactly the values of the parameter tuple.
Carries(r, p) ==
    /\ r.incorrect_term = p.incorrect_term
    /\ r.correct_term = p.correct_term
    /\ r.confidence = p.confidence
    /\ r.reasoning = p.reasoning
    /\ r.correction_type = p.correction_type
    /\ r.source = p.source

\* The statements of the writers' calls, and those of their batches.
Statements == {Statement(call) : call \in WriterCalls}
Batches ==
    {Statement(call) :
        call \in {c \in WriterCalls : c.op = "add_multiple_term_corrections"}}

\* The rows hold nothing written by the batch, or a row for every incorrect
\* term of the batch.
WholeIn(rows, ps) ==
    (\E i \in DOMAIN ps : \E r \in rows : Carries(r, ps[i]))
    => \A i \in DOMAIN ps : \E r \in rows : r.incorrect_term = ps[i].incorrect_term

-----------------------------------------------------------------------------
(* C1 (stated as claimed; refuted in Spec): in every run every             *)
(* incorrect_term is in the dict handed to _apply_corrections in at most   *)
(* one of the stages A, C and D.                                           *)

C1_AtMostOneStage ==
    \A k \in Keys \cup {Empty} :
        Cardinality({st \in Stage : k \in HandedKeys(st)}) <= 1

(* C2 (stated as claimed, with both store reads succeeding; refuted in     *)
(* Spec): when the Analyzer returned no findings and the store was not     *)
(* changed since the run began, every stored correction with a confidence  *)
(* of at least MEDIUM is handed to the Applier in exactly one stage: in    *)
(* Stage A when it is at least HIGH, in Stage D otherwise.                 *)

C2_NothingDroppedByStaging ==
    (/\ Ended /\ transcript # Empty
     /\ FindingItems = <<>> /\ ~store_changed
     /\ read_ok.A /\ read_ok.D)
    => \A r \in table :
          /\ IsHigh(r.confidence) =>
                /\ r.incorrect_term \in HandedKeys("A")
                /\ r.incorrect_term \notin HandedKeys("D")
          /\ IsMedium(r.confidence) =>
                /\ r.incorrect_term \in HandedKeys("D")
                /\ r.incorrect_term \notin HandedKeys("A")

(* C3 (stated as claimed; refuted in SpecWired): with a non-empty catalog, *)
(* a run for which the service has one new high-confidence finding k -> v  *)
(* ready ends with the stored high-confidence corrections and k -> v       *)
(* handed to the Applier and with a record k -> v in the store.            *)

C3_EndToEnd ==
    \A k \in Keys :
        (/\ pc = "done" /\ transcript # Empty
         /\ Truthy(known_terms) \/ Truthy(known_names)
         /\ service = Answer("object", <<<<k, High(k)>>>>)
         /\ k \notin HandedKeys("A")
         /\ ~store_changed /\ read_ok.A /\ read_ok.D)
        => /\ \A r \in table : IsHigh(r.confidence) => r.incorrect_term \in HandedKeys("A")
           /\ k \in HandedKeys("C")
           /\ Stored(<<k, High(k)>>, table)

(* C4 (as claimed; refuted in Spec): when Stage C's                        *)
(* add_multiple_term_corrections returns and the store was available, the  *)
(* store holds a record of every finding the Analyzer returned.            *)

C5_HighFindingsApplied ==
    pc \in {"D", "done", "raised"}
    => \A i \in 1..Len(FindingItems) :
          IsHigh(FindingItems[i][2].confidence) => FindingItems[i][1] \in HandedKeys("C")

(* C6 (as claimed; refuted in Spec): without a concurrent writer, a        *)
(* finding with a confidence below MEDIUM is stored and its key is in no   *)
(* dict handed to the Applier in the run.                                  *)

C8_SnapshotKeysNotInStageD ==
    \A k \in DictKeys(high_confidence_corrections) : k \notin HandedKeys("D")

C8_Witness ==
    /\ pc = "done"
    /\ \E k \in DictKeys(high_confidence_corrections) :
          /\ k \in DictKeys(all_corrections)
          /\ IsMedium(DictGet(all_corrections, k).confidence)
          /\ k \notin HandedKeys("D")

(* C9: the store never holds two rows with the same incorrect_term, and    *)
(* the row of a term carries the correct_term, confidence, reasoning,      *)
(* correction_type and source of the upsert committed last for it.         *)

C11_LongerKeysFirst ==
    pc = "applied"
    => partially_corrected = apply_corrections(transcript, LongestFirst(handed.A)).text


(* C12 (as claimed; refuted in SpecApply): for a dict of one pair,        *)
(* _apply_corrections returns the text with every occurrence of incorrect  *)
(* that stands as a whole word or phrase, in any letter case, replaced by  *)
(* correct as it is written, and nothing else changed.                     *)

C12_WholeWordsReplacedLiterally ==
    (pc \in {"applied", "apply_raised"} /\ Len(handed.A) = 1)
    => /\ pc = "applied"
       /\ partially_corrected =
             Replaced(transcript, 1, handed.A[1][1], handed.A[1][2])

(* C13 (as claimed; refuted in SpecApply): when no rule's correct term is *)
(* matched by another rule's incorrect term, applying the dict to the text *)
(* it has corrected changes nothing.                                       *)

C13_SecondApplicationChangesNothing ==
    (pc = "reapplied" /\ NoCrossMatch(handed.A))
    => final_transcript = partially_corrected

(* C13 (amended): when every term of the dict is made of words separated   *)
(* by single spaces and no word of any rule's correct term is, ignoring    *)
(* case, a word of any rule's incorrect term - the rule's own included,    *)
(* unless that rule changes nothing but the letter case - applying the     *)
(* dict to the text it has corrected changes nothing.                      *)

C13_SecondApplicationChangesNothingWithoutSharedWords ==
    (pc = "reapplied" /\ NoSharedWord(handed.A))
    => final_transcript = partially_corrected

C13_Witness ==
    /\ pc = "reapplied" /\ NoSharedWord(handed.A)
    /\ Len(handed.A) = 2
    /\ partially_corrected # transcript
    /\ \E i \in DOMAIN handed.A : LowerAll(handed.A[i][2]) = LowerAll(handed.A[i][1])

(* C14 (as claimed; refuted in Spec): when the Analyzer fails, it yields   *)
(* no findings and correct_jupiter_terms does not raise, writes nothing to *)
(* the store and returns the transcript corrected with the stored          *)
(* corrections only.                                                       *)

C14_AnalyzerFailureTolerated ==
    (AnalyzerFailed /\ pc \in {"C", "C_commit", "C_filter", "D", "done", "raised"})
    => /\ llm_correction_data = NoFindings
       /\ pc \in {"D", "done"}
       /\ persisted = "no" /\ pending["run"] = NoTx
       /\ handed.C = <<>>
       /\ pc = "done" => final_transcript = CorrectedFromStore

(* C15 (as claimed; refuted in Spec): when the store cannot be reached at  *)
(* Stage A, at Stage C's persist or at Stage D, correct_jupiter_terms does *)
(* not raise; the stage whose access failed hands nothing from the store   *)
(* to the Applier and passes the text on as it got it.                     *)

C15_StoreFailureTolerated ==
    /\ FailedAtA => /\ handed.A = <<>>
                    /\ pc = "B" => partially_corrected = transcript
                    /\ pc # "raised"
    /\ FailedAtC => pc # "raised"
    /\ FailedAtD => /\ handed.D = <<>>
                    /\ final_transcript = partially_corrected
                    /\ pc = "done"

(* C16 (as claimed; refuted in SpecStore): a call of a store function that *)
(* cannot reach the table - no connection, or the statement fails -        *)
(* returns without raising; a query returns the empty dict, an upsert      *)
(* writes nothing, and the rows are as they were before the call.          *)

C16_UnavailableStoreNeverRaises ==
    [][(reply' # reply /\ ~Reaches(reply'.failure))
       => /\ reply'.outcome = "returned"
          /\ reply'.value = <<>>
          /\ table' = table]_vars

(* C17 (as claimed; refuted in SpecStore): a query that reaches the table  *)
(* returns exactly one item for every row with a confidence of at least    *)
(* min_confidence and, when a list of types is given, a correction_type of *)
(* that list - get_all_term_corrections the correct_term and               *)
(* get_term_corrections_with_metadata the full record, so both the same    *)
(* keys - and the items stand in descending length of incorrect_term.      *)

C17_QueryReturnsExactlyTheFilter ==
    Answered
    => /\ Range(reply.value) = {ItemOf(r) : r \in Asked}
       /\ Len(reply.value) = Cardinality(Asked)
       /\ LongestKeysFirst(reply.value)

(* C18: the committed rows change only when a call commits its            *)
(* transaction, and then they hold a row with the values of every tuple of *)
(* the call's whole statement; a call that fails leaves them as they were. *)
(* So the committed rows, and the rows any reader has seen, hold for every *)
(* batch either nothing the batch wrote or a row for each of its terms.    *)

C18_BatchCommitsAsAWhole ==
    [][/\ table' # table
          => \E p \in Procs :
                /\ pending[p] # NoTx /\ pending'[p] = NoTx
                /\ pending[p].params \in Statements
                /\ \A i \in DOMAIN pending[p].params :
                      \E r \in table' : Carries(r, pending[p].params[i])
       /\ \A ps \in Batches : WholeIn(table', ps) /\ WholeIn(reply'.seen, ps)]_vars

C18_Witness ==
    /\ Answered /\ reply.seen # table
    /\ \E ps \in Batches :
          /\ Len(ps) = 2
          /\ \A i \in DOMAIN ps : \E r \in table : Carries(r, ps[i])
          /\ \A i \in DOMAIN ps : \A r \in reply.seen : ~Carries(r, ps[i])

(* C19 (as claimed; refuted in SpecStore): when an upsert is committed for *)
(* an incorrect_term whose row already holds the same correct_term and     *)
(* confidence, the store holds exactly one row for the term afterwards and *)
(* the row's updated_at is greater than it was before.                     *)

C19_SameUpsertTwice ==
    \A k \in Keys :
        last_commit[k].before # <<>>
        => /\ Cardinality(RowsOf(table, k)) = 1
           /\ \A r \in RowsOf(table, k) : r.updated_at > last_commit[k].before[1]

(* C20 (as claimed; refuted in SpecTies): the text a run returns is the    *)
(* only text that a run on the same transcript, the same rows and the same *)
(* Analyzer response can return, also when rows have incorrect terms of    *)
(* equal length.                                                           *)

C20_SameStoreSameText ==
    ReturnedFromStore => RunTexts = {final_transcript}

(* C21: a run on the empty transcript has returned the empty string as     *)
(* soon as it is started, and it has read nothing from the store, written  *)
(* nothing to it and made no request to the generative service.            *)

C21_EmptyTranscriptTouchesNothing ==
    (pc # "idle" /\ transcript = Empty)
    => /\ pc = "done" /\ final_transcript = Empty
       /\ service_calls = 0 /\ llm_correction_data = NoFindings
       /\ high_confidence_corrections = <<>> /\ all_corrections = <<>>
       /\ read_ok = [A |-> FALSE, D |-> FALSE] /\ handed = NoDicts
       /\ persisted = "no" /\ pending["run"] = NoTx
       /\ \A k \in Keys : "run" \notin last_commit[k].by

C21_Witness ==
    /\ pc = "done" /\ transcript = Empty /\ final_transcript = Empty
    /\ \E r \in table : IsHigh(r.confidence)
    /\ \E r \in table : IsMedium(r.confidence)

(* C22 (as claimed; refuted in SpecRetry): a call of                       *)
(* generate_response_with_retry ends with a network failure or a quota     *)
(* failure of the service only when max_retries retries have been made,    *)
(* each after a positive delay.                                            *)

C22_NetworkAndQuotaFailuresRetried ==
    (CallRaised /\ LastTried.error.kind \in {"quota", "network"})
    => /\ Len(generator.tried) = max_retries + 1
       /\ generator.retry_count = max_retries
       /\ generator.delay > 0

(* C23: when the service answers every request, a call of                  *)
(* generate_response_with_retry ends; it makes at most max_retries + 1     *)
(* attempts and ends in exactly one of three ways - it returns the         *)
(* response of its first successful attempt, it raises                     *)
(* QuotaExceededException when the attempt after max_retries retries fails *)
(* on quota, or it re-raises an error that is no quota error - and never   *)
(* by the raise that follows the loop.                                     *)

C23_EndsInOneOfThreeWays ==
    /\ [](/\ Len(generator.tried) <= max_retries + 1
          /\ generator.pc # "raised_unexpected"
          /\ \A i \in 1..(Len(generator.tried) - 1) :
                handle_quota_error(generator.tried[i].error)
          /\ generator.pc = "returned" <=>
                (CallEnded /\ LastTried.error = NoError)
          /\ generator.pc = "raised_quota" <=>
                (/\ CallEnded /\ handle_quota_error(LastTried.error)
                 /\ Len(generator.tried) = max_retries + 1)
          /\ generator.pc = "raised_error" <=>
                (/\ CallEnded /\ LastTried.error # NoError
                 /\ ~handle_quota_error(LastTried.error)))
    /\ <>CallEnded

C23_Witness ==
    /\ generator.pc = "raised_quota"
    /\ Len(generator.tried) = max_retries + 1
    /\ generator.retry_count = max_retries

(* C24: when the Analyzer has asked the service and the answer parses to a *)
(* JSON object, the findings it returns are, in the order of the answer,   *)
(* exactly the entries that are objects with a term field, each with the   *)
(* model's values, with the confidence 0.7 when the model gave none, and   *)
(* with the model's correction_type or else person when the term is a      *)
(* known name or nickname and term when it is not.                         *)

C24_FindingsAreTheEntriesWithATerm ==
    Analyzed
    => FindingItems =
          [i \in DOMAIN SelectSeq(service.corrections,
                                  LAMBDA item : /\ item[2].kind = "dict"
                                                /\ "term" \in item[2].has) |->
              AsFinding(SelectSeq(service.corrections,
                                  LAMBDA item : /\ item[2].kind = "dict"
                                                /\ "term" \in item[2].has)[i])]

C24_Witness ==
    /\ Analyzed
    /\ Len(FindingItems) = 1 /\ Len(service.corrections) = 2
    /\ FindingItems[1][2].correction_type = "person"
    /\ FindingItems[1][2].confidence = Num(DefaultAnalyzerConfidence)
    /\ FindingItems[1][2].term = Meow

(* C25 (as claimed; the code diverges): every record of the store carries  *)
(* a number from 0.0 to 1.0 as its confidence, whatever upserts and runs   *)
(* came before, runs whose Analyzer answered with a confidence outside     *)
(* that range included.                                                    *)

C25_ConfidenceWithinZeroAndOne ==
    \A r \in table :
        /\ r.confidence.t = "float"
        /\ r.confidence.v >= 0 /\ r.confidence.v <= 100

(* C26 (as claimed; the code diverges): the flat list the Analyzer makes   *)
(* of a catalog holds every non-empty entry name and every non-empty alias *)
(* of the catalog, and holds no string twice, also when an alias repeats   *)
(* an entry name or two entries share an alias.                            *)

C26_FlattenHoldsNoStringTwice ==
    (pc \in {"C", "D"} /\ service_calls = 1)
    => /\ Range(extract_terms_list(known_terms).list) = NamedIn(known_terms)
       /\ Range(extract_people_list(known_names).list) = NamedIn(known_names)
       /\ NoStringTwice(extract_terms_list(known_terms).list)
       /\ NoStringTwice(extract_people_list(known_names).list)

(* C27 (as claimed; the code diverges): text written by a high-confidence  *)
(* correction in Stage A or Stage C is never rewritten by Stage D of the   *)
(* same run: no rule handed to Stage D has an incorrect term that matches, *)
(* case-insensitively as a whole word, inside a replacement an earlier     *)
(* stage wrote.                                                            *)

C27_MediumNeverRewritesHighText ==
    pc = "done"
    => \A d \in DOMAIN handed.D : \A written \in WrittenByHigh :
          ~HasMatch(written, handed.D[d][1])

(* C28 (as claimed; the code diverges): when a run has ended, every        *)
(* finding its Analyzer returned with a confidence from the medium         *)
(* threshold up to, not including, the high one (the default 0.7           *)
(* included), under a key that was not in the dict Stage A read, was       *)
(* handed to the Applier in Stage D of that run.                           *)

C28_MediumFindingAppliedInSameRun ==
    Ended => \A i \in DOMAIN FindingItems : MediumNew(i) => AppliedInD(i)

(* C29 (as claimed; refuted in Spec): when Stage C's persist is over, the  *)
(* record of every key the Analyzer returned a finding for and the store   *)
(* already held carries the finding's term and confidence and the source   *)
(* llm_identified, whatever the record was before.                         *)

C30_LesserModelOnAlternateRetries ==
    (generator.tried # <<>> /\ generator.tried[1].model_used = "standard")
    => \A i \in DOMAIN generator.tried :
          generator.tried[i].model_id =
              set_model_id(generator.tried[i].retry_count % 2 = 1)

====
